---- MODULE Spec2Model ----
(***************************************************************************)
(* A model of src/cleaning.py: the shark-attack table cleaning functions   *)
(* and the clean_data pipeline that composes them.                         *)
(*                                                                         *)
(* A table is a record [cols, rows]: the set of column names and the       *)
(* sequence of rows, each row a function from the column names to cells.   *)
(* A cell is a record [kind, s, n]: a missing value (NaN/None), a text     *)
(* or an integer.  Texts are TLA+ strings; the text operations of the      *)
(* code (strip, upper, lower, substring search, regex extraction, numeric  *)
(* parsing) are computed character by character.                           *)
(*                                                                         *)
(* fuzzywuzzy's process.extractOne is a library outside src/: its answer   *)
(* (the best-scoring choice and its score) is an input of the step that    *)
(* calls it and is recorded in the variable fuzzy.                         *)
(***************************************************************************)
EXTENDS Naturals, Integers, Sequences, FiniteSets, TLC

VARIABLES
    raw,     \* the caller's table, as handed to the first call
    arg,     \* the table handed to the last call (raw before any call)
    df,      \* the table returned by the last call (raw before any call)
    last,    \* the name of the last function called, "none" before any call
    pc,      \* clean_data: the number of stages that have run
    err,     \* the exception raised by the last call, "none" if it returned
    fuzzy,   \* per row, the answer of process.extractOne in the last call
    cutoff   \* the score_cutoff of the last call that takes one

vars == <<raw, arg, df, last, pc, err, fuzzy, cutoff>>

\* The largest number of rows of a table.
MaxRows == 1

-----------------------------------------------------------------------------
(* Cells *)

Null == [kind |-> "null", s |-> "", n |-> 0]
Str(s) == [kind |-> "str", s |-> s, n |-> 0]
Num(n) == [kind |-> "int", s |-> "", n |-> n]

\* pd.isna(x)
IsNa(x) == x.kind = "null"

-----------------------------------------------------------------------------
(* Python text operations *)

LowerAlpha == "abcdefghijklmnopqrstuvwxyz"
UpperAlpha == "ABCDEFGHIJKLMNOPQRSTUVWXYZ"
Digits == "0123456789"

CharAt(s, i) == SubSeq(s, i, i)

\* The position of character c in text s, 0 when it does not occur.
IndexOf(c, s) ==
    IF \E i \in 1..Len(s) : CharAt(s, i) = c
    THEN CHOOSE i \in 1..Len(s) :
            /\ CharAt(s, i) = c
            /\ \A j \in 1..(i - 1) : CharAt(s, j) # c
    ELSE 0

\* The upper-case letter of each lower-case letter, and the converse.
ToUpper ==
    [c \in {CharAt(LowerAlpha, i) : i \in 1..Len(LowerAlpha)} |->
        CharAt(UpperAlpha, IndexOf(c, LowerAlpha))]

ToLower ==
    [c \in {CharAt(UpperAlpha, i) : i \in 1..Len(UpperAlpha)} |->
        CharAt(LowerAlpha, IndexOf(c, UpperAlpha))]

UpperChar(c) == IF c \in DOMAIN ToUpper THEN ToUpper[c] ELSE c

LowerChar(c) == IF c \in DOMAIN ToLower THEN ToLower[c] ELSE c

RECURSIVE Upper(_)
\* str.upper()
Upper(s) ==
    IF s = "" THEN "" ELSE UpperChar(CharAt(s, 1)) \o Upper(SubSeq(s, 2, Len(s)))

RECURSIVE Lower(_)
\* str.lower()
Lower(s) ==
    IF s = "" THEN "" ELSE LowerChar(CharAt(s, 1)) \o Lower(SubSeq(s, 2, Len(s)))

IsSpace(c) == c \in {" ", "\t", "\n"}

DigitChars == {CharAt(Digits, i) : i \in 1..Len(Digits)}

IsDigit(c) == c \in DigitChars

\* str.strip(): the text without its leading and trailing whitespace.
Strip(s) ==
    LET keep == {i \in 1..Len(s) : ~IsSpace(CharAt(s, i))}
    IN  IF keep = {} THEN ""
        ELSE LET lo == CHOOSE i \in keep : \A j \in keep : i <= j
                 hi == CHOOSE i \in keep : \A j \in keep : j <= i
             IN  SubSeq(s, lo, hi)

\* sub in s
Contains(s, sub) ==
    \E i \in 1..(Len(s) + 1) :
        /\ i + Len(sub) - 1 <= Len(s)
        /\ SubSeq(s, i, i + Len(sub) - 1) = sub

-----------------------------------------------------------------------------
(* Tables *)

NumRows(d) == Len(d.rows)

\* The cells of column c, in row order.
Column(d, c) == [i \in 1..NumRows(d) |-> d.rows[i][c]]

\* d[c] = vals: column c is added, or replaced, by the cells of vals.
WithColumn(d, c, vals) ==
    [cols |-> d.cols \cup {c},
     rows |-> [i \in 1..NumRows(d) |->
                 [k \in d.cols \cup {c} |->
                     IF k = c THEN vals[i] ELSE d.rows[i][k]]]]

\* d.drop(columns=cs, errors='ignore')
DropColumns(d, cs) ==
    [cols |-> d.cols \ cs,
     rows |-> [i \in 1..NumRows(d) |-> [k \in d.cols \ cs |-> d.rows[i][k]]]]

\* The tables over the columns cs whose rows are drawn from rowSet.
Tables(cs, rowSet) ==
    {[cols |-> cs, rows |-> r] :
        r \in UNION {[1..n -> rowSet] : n \in 1..MaxRows}}

\* No call of extractOne was made for a row.
NoCall == [called |-> FALSE, cand |-> "", score |-> 0]

NoCalls(d) == [i \in 1..NumRows(d) |-> NoCall]

-----------------------------------------------------------------------------
(* clean_type *)

\* Series.replace with the dictionary of clean_type: exact keys only.
TypeReplace(x) ==
    IF IsNa(x) THEN Str("Unconfirmed")
    ELSE IF x.kind # "str" THEN x
    ELSE CASE x.s = "?" -> Str("Unconfirmed")
           [] x.s = "Unverified" -> Str("Unconfirmed")
           [] x.s = "Invalid" -> Str("Unconfirmed")
           [] x.s = "Questionable" -> Str("Unconfirmed")
           [] x.s = "unprovoked" -> Str("Unprovoked")
           [] x.s = " Provoked" -> Str("Provoked")
           [] x.s = "Boat" -> Str("Watercraft")
           [] OTHER -> x

clean_type(d) ==
    WithColumn(d, "Type", [i \in 1..NumRows(d) |-> TypeReplace(d.rows[i]["Type"])])

-----------------------------------------------------------------------------
(* clean_sex *)

\* .str.strip() then .str.upper(): a cell that is not a text becomes NaN.
SexStripUpper(x) ==
    IF x.kind = "str" THEN Str(Upper(Strip(x.s))) ELSE Null

\* The two replace calls of clean_sex.
SexReplace(x) ==
    IF x.kind # "str" THEN x
    ELSE CASE x.s = "." -> Null
           [] x.s = "LLI" -> Str("M")
           [] x.s = "M X 2" -> Str("M")
           [] x.s = "N" -> Str("M")
           [] OTHER -> x

SexCell(x) == SexReplace(SexStripUpper(x))

clean_sex(d) ==
    WithColumn(d, "Sex", [i \in 1..NumRows(d) |-> SexCell(d.rows[i]["Sex"])])

-----------------------------------------------------------------------------
(* clean_fatal *)

\* fillna(''), then .str.strip().str.upper()
FatalStripUpper(x) ==
    IF IsNa(x) THEN Str("")
    ELSE IF x.kind = "str" THEN Str(Upper(Strip(x.s)))
    ELSE Null

\* The replace call of clean_fatal.
FatalReplace(x) ==
    IF x.kind # "str" THEN x
    ELSE CASE x.s = "Y" -> Str("Yes")
           [] x.s = "Y X 2" -> Str("Yes")
           [] x.s = "F" -> Str("Yes")
           [] x.s = "N" -> Str("No")
           [] x.s = "NQ" -> Str("No")
           [] OTHER -> x

FatalEnumMutant(x) ==
    IF x \in {Str("Yes"), Str("No"), Str("")} THEN x ELSE Str("Unknown")

\* lambda x: x if x in ['Yes', 'No'] else 'Unknown'
FatalEnum(x) ==
    IF x \in {Str("Yes"), Str("No")} THEN x ELSE Str("Unknown")

FatalCell(x) == FatalEnum(FatalReplace(FatalStripUpper(x)))

clean_fatal(d) ==
    WithColumn(d, "Fatal Y/N",
               [i \in 1..NumRows(d) |-> FatalCell(d.rows[i]["Fatal Y/N"])])

-----------------------------------------------------------------------------
(* Calls of the categorical normalizers *)

HandedMutant(before, out) == out

\* What the table object handed to a call holds once the call has returned
\* out: every cleaning function assigns into raw_shark_attack_df.copy(), and
\* drop_useless_columns calls the non-inplace drop, so the object the caller
\* passed keeps the value it had before the call.
Handed(before, out) == before

\* A call of function f on the table df: f raises the exception raised
\* ("none" when it returns), returns out, asked extractOne the answers o and
\* was given the score cutoff c.  An exception ends the run.
Apply(f, raised, out, o, c) ==
    /\ err = "none"
    /\ last' = f
    /\ raw' = IF last = "none" /\ raised = "none" THEN Handed(raw, out) ELSE raw
    /\ arg' = IF raised = "none" THEN Handed(df, out) ELSE df
    /\ cutoff' = c
    /\ err' = raised
    /\ IF raised = "none"
       THEN /\ df' = out
            /\ fuzzy' = o
       ELSE /\ df' = df
            /\ fuzzy' = NoCalls(df)

\* df[c] for a column the table lacks raises KeyError.
Missing(d, need) == IF need \subseteq d.cols THEN "none" ELSE "KeyError"

\* A direct call of a cleaning function, outside clean_data.
Direct == pc = 0 /\ pc' = pc

StepCleanType ==
    Apply("clean_type", Missing(df, {"Type"}), clean_type(df), NoCalls(df), cutoff)

StepCleanSex ==
    Apply("clean_sex", Missing(df, {"Sex"}), clean_sex(df), NoCalls(df), cutoff)

StepCleanFatal ==
    Apply("clean_fatal", Missing(df, {"Fatal Y/N"}), clean_fatal(df), NoCalls(df), cutoff)

CallCleanType == Direct /\ StepCleanType

CallCleanSex == Direct /\ StepCleanSex

CallCleanFatal == Direct /\ StepCleanFatal

\* Leading and trailing whitespace of the raw texts.
Pads == {"", " ", "\t "}

Padded(cores) == {Str(l \o c \o r) : l \in Pads, c \in cores, r \in Pads}

FatalCores ==
    {"", "Y", "y", "N", "n", "NQ", "Nq", "F", "f", "Y x 2", "y X 2",
     "Yes", "No", "yes", "YES", "no", "UNKNOWN", "Unknown", "M", "2017"}

SexCores == {"M", "m", "F", "f", "N", "n", ".", "lli", "LLI", "M x 2", "M X 2"}

TypeInputs ==
    {Null} \cup
    {Str(s) : s \in {"?", "Unverified", "Invalid", "Questionable", "unprovoked",
                     " Provoked", "Provoked", "Boat", "Unprovoked", "Watercraft",
                     "Unconfirmed", "Sea Disaster", "Boat ", "invalid", ""}}

InitCall(d) ==
    /\ raw = d
    /\ arg = d
    /\ df = d
    /\ last = "none"
    /\ pc = 0
    /\ err = "none"
    /\ fuzzy = NoCalls(d)
    /\ cutoff = 0

RowsOver(c, cells) == {[k \in {c} |-> x] : x \in cells}

InitCategorical ==
    \E d \in Tables({"Fatal Y/N"}, RowsOver("Fatal Y/N", {Null} \cup Padded(FatalCores)))
             \cup Tables({"Sex"}, RowsOver("Sex", {Null} \cup Padded(SexCores)))
             \cup Tables({"Type"}, RowsOver("Type", TypeInputs)) :
        InitCall(d)

NextCategorical == CallCleanType \/ CallCleanSex \/ CallCleanFatal

SpecCategorical == InitCategorical /\ [][NextCategorical]_vars

-----------------------------------------------------------------------------
(* process.extractOne(query, choices, score_cutoff=c) *)

\* The scores an answer may carry: just below and at each cutoff in cs.
ScoresNear(cs) == UNION {{c - 1, c} : c \in cs}

\* The answers extractOne may compute for a query: its best-scoring choice
\* and the score.  A query that is itself a choice scores 100 on itself.
Answers(query, choices, cs) ==
    IF query \in choices
    THEN {[called |-> TRUE, cand |-> query, score |-> 100]}
    ELSE {[called |-> TRUE, cand |-> c, score |-> s] :
            c \in choices, s \in ScoresNear(cs)}

\* The sequences that take their i-th element from the i-th set of sets.
RowWise(sets) ==
    {o \in [DOMAIN sets -> UNION {sets[i] : i \in DOMAIN sets}] :
        \A i \in DOMAIN sets : o[i] \in sets[i]}

\* extractOne returns the best choice when its score is at least the cutoff
\* and None otherwise.
HasMatch(o, c) == o.score >= c

-----------------------------------------------------------------------------
(* clean_species *)

SpeciesCutoff == 70

shark_species ==
    {"Great White Shark", "Tiger Shark", "Bull Shark", "Blacktip Shark",
     "Sandbar Shark", "Nurse Shark", "Lemon Shark", "Hammerhead Shark",
     "Mako Shark", "Blue Shark", "Sand Tiger Shark", "Reef Shark",
     "Wobbegong Shark", "Thresher Shark", "Dusky Shark", "Spinner Shark",
     "Silky Shark", "Bronze Whaler Shark", "Galapagos Shark", "Grey Reef Shark",
     "Blacktip Reef Shark", "Whitetip Reef Shark", "Caribbean Reef Shark",
     "Silvertip Shark", "Oceanic Whitetip Shark", "Porbeagle Shark",
     "Basking Shark", "Whale Shark", "Goblin Shark", "Angel Shark",
     "Leopard Shark", "Dogfish Shark", "Sevengill Shark", "Sixgill Shark"}

invalid_terms ==
    {"invalid", "questionable", "not confirmed", "unconfirmed", "not stated"}

\* The dictionary name_mappings in its declared order.
name_mappings ==
    << <<"white shark", "Great White Shark">>,
       <<"great white", "Great White Shark">>,
       <<"bull shark", "Bull Shark">>,
       <<"tiger shark", "Tiger Shark">>,
       <<"blacktip shark", "Blacktip Shark">>,
       <<"sand tiger", "Sand Tiger Shark">>,
       <<"wobbegong", "Wobbegong Shark">>,
       <<"hammerhead", "Hammerhead Shark">>,
       <<"mako", "Mako Shark">>,
       <<"blue shark", "Blue Shark">>,
       <<"nurse shark", "Nurse Shark">>,
       <<"lemon shark", "Lemon Shark">>,
       <<"spinner shark", "Spinner Shark">>,
       <<"dusky shark", "Dusky Shark">>,
       <<"silky shark", "Silky Shark">>,
       <<"bronze whaler", "Bronze Whaler Shark">>,
       <<"galapagos shark", "Galapagos Shark">>,
       <<"grey reef shark", "Grey Reef Shark">>,
       <<"blacktip reef shark", "Blacktip Reef Shark">>,
       <<"whitetip reef shark", "Whitetip Reef Shark">>,
       <<"caribbean reef shark", "Caribbean Reef Shark">>,
       <<"silvertip shark", "Silvertip Shark">>,
       <<"oceanic whitetip shark", "Oceanic Whitetip Shark">>,
       <<"porbeagle shark", "Porbeagle Shark">>,
       <<"basking shark", "Basking Shark">>,
       <<"whale shark", "Whale Shark">>,
       <<"goblin shark", "Goblin Shark">>,
       <<"angel shark", "Angel Shark">>,
       <<"leopard shark", "Leopard Shark">>,
       <<"dogfish shark", "Dogfish Shark">>,
       <<"sevengill shark", "Sevengill Shark">>,
       <<"sixgill shark", "Sixgill Shark">>,
       <<"reef shark", "Reef Shark">>,
       <<"sandbar shark", "Sandbar Shark">>,
       <<"thresher shark", "Thresher Shark">>,
       <<"reef", "Reef Shark">>,
       <<"sand tiger shark", "Sand Tiger Shark">>,
       <<"unconfirmed", "Unknown">>,
       <<"Unconfirmed", "Unknown">>,
       <<"unknown", "Unknown">> >>

\* str(x) of a cell that is not missing.
RECURSIVE NatStr(_)
NatStr(n) ==
    IF n < 10 THEN CharAt(Digits, n + 1)
    ELSE NatStr(n \div 10) \o CharAt(Digits, (n % 10) + 1)

StrOf(x) ==
    CASE x.kind = "str" -> x.s
      [] x.kind = "int" -> IF x.n < 0 THEN "-" \o NatStr(0 - x.n) ELSE NatStr(x.n)
      [] OTHER -> "nan"

\* any(term in species.lower() for term in invalid_terms); lt is species.lower()
HasInvalidTerm(lt) == \E term \in invalid_terms : Contains(lt, term)

\* The size-description filter: both tests of lines 324-325 hold.
SizeFiltered(t, lt) ==
    /\ \/ Contains(t, "'")
       \/ Contains(lt, "m")
       \/ ~Contains(lt, "shark")
    /\ ~Contains(lt, "shark")

\* The positions of name_mappings whose key occurs in the lowercased text.
MappingHits(lt) ==
    {k \in 1..Len(name_mappings) : Contains(lt, name_mappings[k][1])}

\* The value of the first key, in declared order, that occurs in the text.
FirstMapping(lt) ==
    LET hits == MappingHits(lt)
        k == CHOOSE k \in hits : \A j \in hits : k <= j
    IN  name_mappings[k][2]

\* The text normalize_species works on: str(species).strip().
SpeciesText(x) == Strip(StrOf(x))

\* The call reaches extractOne.
SpeciesAsksFuzzy(x) ==
    LET t == SpeciesText(x)
        lt == Lower(t)
    IN  /\ ~IsNa(x)
        /\ t # ""
        /\ ~HasInvalidTerm(lt)
        /\ ~SizeFiltered(t, lt)
        /\ MappingHits(lt) = {}

\* normalize_species(species), given extractOne's answer o, under cutoff c.
normalize_species(x, o, c) ==
    LET t == SpeciesText(x)
        lt == Lower(t)
    IN  IF IsNa(x) THEN Str("Unknown")
        ELSE IF t = "" THEN Str("Unknown")
        ELSE IF HasInvalidTerm(lt) THEN Str("Unknown")
        ELSE IF SizeFiltered(t, lt) THEN Str("Unknown")
        ELSE IF MappingHits(lt) # {} THEN Str(FirstMapping(lt))
        ELSE IF HasMatch(o, c) THEN Str(o.cand)
        ELSE Str("Unknown")

\* The column clean_species reads: 'Species ' when the table has it.
SpeciesCol(d) == IF "Species " \in d.cols THEN "Species " ELSE "Species"

clean_species(d, o, c) ==
    LET col == SpeciesCol(d)
        out == WithColumn(d, "Species",
                   [i \in 1..NumRows(d) |-> normalize_species(d.rows[i][col], o[i], c)])
    IN  IF col = "Species " THEN DropColumns(out, {"Species "}) ELSE out

\* The species extractOne is taken to rank best for some query: a few of
\* shark_species, which keeps the answers of a call few.
SpeciesBest == {"Tiger Shark", "Great White Shark", "Whale Shark"}

\* The answers extractOne may give for one cell in a call of clean_species.
SpeciesCellAnswers(x) ==
    IF SpeciesAsksFuzzy(x)
    THEN IF SpeciesText(x) \in shark_species
         THEN Answers(SpeciesText(x), shark_species, {SpeciesCutoff})
         ELSE Answers(SpeciesText(x), SpeciesBest, {SpeciesCutoff})
    ELSE {NoCall}

\* The answers extractOne may give, row by row, in a call of clean_species.
SpeciesAnswers(d) ==
    IF SpeciesCol(d) \notin d.cols THEN {NoCalls(d)}
    ELSE RowWise([i \in 1..NumRows(d) |-> SpeciesCellAnswers(d.rows[i][SpeciesCol(d)])])

StepCleanSpecies ==
    \E o \in SpeciesAnswers(df) :
        Apply("clean_species", Missing(df, {SpeciesCol(df)}),
              clean_species(df, o, SpeciesCutoff), o, SpeciesCutoff)

CallCleanSpecies == Direct /\ StepCleanSpecies

SpeciesCores ==
    {"", "great white", "wobbegong", "White shark, 2m", "3' shark", "Tiger shark",
     "Invalid", "Shark involvement not confirmed", "hammerhead", "Mako", "2 m",
     "6' to 8'", "bull shark", "reef", "unknown", "Sand Tiger Shark", "small shark",
     "Zambezi shark", "Grey nurse shark", "SHARK", "bronze whaler", "dogfish"}

SpeciesInputs ==
    {Null} \cup {Str(s) : s \in SpeciesCores}
           \cup Padded({"", "great white", "small shark"})

InitSpecies ==
    \E d \in Tables({"Species"}, RowsOver("Species", SpeciesInputs))
             \cup Tables({"Species "}, RowsOver("Species ", SpeciesInputs)) :
        InitCall(d)

NextSpecies == CallCleanSpecies

SpecSpecies == InitSpecies /\ [][NextSpecies]_vars

\* clean_species on the names of the taxonomy itself.
TaxonomyInputs == {Str(s) : s \in shark_species}

InitTaxonomy ==
    \E d \in Tables({"Species"}, RowsOver("Species", TaxonomyInputs))
             \cup Tables({"Species "}, RowsOver("Species ", TaxonomyInputs)) :
        InitCall(d)

NextTaxonomy == CallCleanSpecies

SpecTaxonomy == InitTaxonomy /\ [][NextTaxonomy]_vars

-----------------------------------------------------------------------------
(* clean_country *)

CountryDefaultCutoff == 80
PipelineCutoff == 60

\* [country.name for country in countries]: the names of pycountry, of which
\* the model carries these.
country_names ==
    {"United States", "Australia", "Canada", "Brazil", "South Africa",
     "Sri Lanka", "Poland", "France"}

\* The names extractOne is taken to rank best for a query that is no name.
CountryBest == {"United States", "Australia", "Poland"}

\* The dictionary replacements of match_country.
replacements ==
    [k \in {"USA", "AUSTRALIA", "CEYLON (SRI LANKA)", "SOUTH AFRICA"} |->
        CASE k = "USA" -> "United States"
          [] k = "AUSTRALIA" -> "Australia"
          [] k = "CEYLON (SRI LANKA)" -> "Sri Lanka"
          [] OTHER -> "South Africa"]

CountryAsksFuzzy(x) ==
    /\ ~IsNa(x)
    /\ Strip(StrOf(x)) # ""
    /\ Strip(StrOf(x)) \notin DOMAIN replacements

match_country_mutant(x, o, c) ==
    LET name == Strip(StrOf(x))
    IN  IF IsNa(x) THEN x
        ELSE IF name = "" THEN Str(name)
        ELSE IF name \in DOMAIN replacements THEN Str(replacements[name])
        ELSE IF HasMatch(o, c) THEN Str(o.cand)
        ELSE Str("Unknown")

\* match_country(name), given extractOne's answer o, under cutoff c.
match_country(x, o, c) ==
    LET name == Strip(StrOf(x))
    IN  IF IsNa(x) THEN x
        ELSE IF name = "" THEN Str(name)
        ELSE IF name \in DOMAIN replacements THEN Str(replacements[name])
        ELSE IF HasMatch(o, c) THEN Str(o.cand)
        ELSE Str(name)

clean_country(d, o, c) ==
    WithColumn(d, "Country",
        [i \in 1..NumRows(d) |-> match_country(d.rows[i]["Country"], o[i], c)])

Cutoffs == {CountryDefaultCutoff, PipelineCutoff}

CountryCellAnswers(x, c) ==
    IF CountryAsksFuzzy(x)
    THEN IF Strip(StrOf(x)) \in country_names
         THEN Answers(Strip(StrOf(x)), country_names, {c})
         ELSE Answers(Strip(StrOf(x)), CountryBest, {c})
    ELSE {NoCall}

CountryAnswers(d, c) ==
    IF "Country" \notin d.cols THEN {NoCalls(d)}
    ELSE RowWise([i \in 1..NumRows(d) |-> CountryCellAnswers(d.rows[i]["Country"], c)])

StepCleanCountry(c) ==
    \E o \in CountryAnswers(df, c) :
        Apply("clean_country", Missing(df, {"Country"}), clean_country(df, o, c), o, c)

CallCleanCountry == \E c \in Cutoffs : Direct /\ StepCleanCountry(c)

-----------------------------------------------------------------------------
(* clean_state *)

state_mappings ==
    [k \in {"United States", "Australia", "Canada", "Brazil"} |->
        CASE k = "United States" ->
               {"Alabama", "Alaska", "Arizona", "Arkansas", "California", "Colorado",
                "Connecticut", "Delaware", "Florida", "Georgia", "Hawaii", "Idaho",
                "Illinois", "Indiana", "Iowa", "Kansas", "Kentucky", "Louisiana",
                "Maine", "Maryland", "Massachusetts", "Michigan", "Minnesota",
                "Mississippi", "Missouri", "Montana", "Nebraska", "Nevada",
                "New Hampshire", "New Jersey", "New Mexico", "New York",
                "North Carolina", "North Dakota", "Ohio", "Oklahoma", "Oregon",
                "Pennsylvania", "Rhode Island", "South Carolina", "South Dakota",
                "Tennessee", "Texas", "Utah", "Vermont", "Virginia", "Washington",
                "West Virginia", "Wisconsin", "Wyoming"}
          [] k = "Australia" ->
               {"New South Wales", "Victoria", "Queensland", "Western Australia",
                "South Australia", "Tasmania", "Northern Territory",
                "Australian Capital Territory"}
          [] k = "Canada" ->
               {"Alberta", "British Columbia", "Manitoba", "New Brunswick",
                "Newfoundland and Labrador", "Northwest Territories", "Nova Scotia",
                "Nunavut", "Ontario", "Prince Edward Island", "Quebec",
                "Saskatchewan", "Yukon"}
          [] OTHER ->
               {"Acre", "Alagoas", "Amapá", "Amazonas", "Bahia", "Ceará",
                "Distrito Federal", "Espírito Santo", "Goiás", "Maranhão",
                "Mato Grosso", "Mato Grosso do Sul", "Minas Gerais", "Pará",
                "Paraíba", "Paraná", "Pernambuco", "Piauí", "Rio de Janeiro",
                "Rio Grande do Norte", "Rio Grande do Sul", "Rondônia", "Roraima",
                "Santa Catarina", "São Paulo", "Sergipe", "Tocantins"}]

\* state_mappings.get(country, [])
country_states(country) ==
    IF country.kind = "str" /\ country.s \in DOMAIN state_mappings
    THEN state_mappings[country.s]
    ELSE {}

\* The subdivisions extractOne is taken to rank best for a query that is none.
StateBest == {"Florida", "Hawaii", "New South Wales", "Bahia", "Ontario"}

StateAsksFuzzy(state, country) ==
    /\ ~IsNa(state)
    /\ ~IsNa(country)
    /\ Strip(StrOf(state)) # ""
    /\ country_states(country) # {}

\* match_state(row), given extractOne's answer o, under cutoff c.
match_state(state, country, o, c) ==
    LET name == Strip(StrOf(state))
    IN  IF IsNa(state) \/ IsNa(country) THEN state
        ELSE IF name = "" THEN Str(name)
        ELSE IF country_states(country) = {} THEN Str(name)
        ELSE IF HasMatch(o, c) THEN Str(o.cand)
        ELSE Str(name)

clean_state(d, o, c) ==
    WithColumn(d, "State",
        [i \in 1..NumRows(d) |->
            match_state(d.rows[i]["State"], d.rows[i]["Country"], o[i], c)])

StateCellAnswers(state, country, c) ==
    IF StateAsksFuzzy(state, country)
    THEN IF Strip(StrOf(state)) \in country_states(country)
         THEN Answers(Strip(StrOf(state)), country_states(country), {c})
         ELSE Answers(Strip(StrOf(state)), StateBest \cap country_states(country), {c})
    ELSE {NoCall}

StateAnswers(d, c) ==
    IF ~({"State", "Country"} \subseteq d.cols) THEN {NoCalls(d)}
    ELSE RowWise([i \in 1..NumRows(d) |->
                    StateCellAnswers(d.rows[i]["State"], d.rows[i]["Country"], c)])

StepCleanState(c) ==
    \E o \in StateAnswers(df, c) :
        Apply("clean_state", Missing(df, {"State", "Country"}), clean_state(df, o, c), o, c)

CallCleanState == \E c \in Cutoffs : Direct /\ StepCleanState(c)

CountryInputs ==
    {Null} \cup Padded({"", "USA", "Xyzland", "Austrlia", "Australia"})
           \cup {Str(s) : s \in {"AUSTRALIA", "usa", "SOUTH AFRICA", "CEYLON (SRI LANKA)",
                                 "Brazil", "FRANCE"}}

InitCountry ==
    \E d \in Tables({"Country"}, RowsOver("Country", CountryInputs)) : InitCall(d)

NextCountry == CallCleanCountry

SpecCountry == InitCountry /\ [][NextCountry]_vars

-----------------------------------------------------------------------------
(* clean_activity *)

ActivityCutoff == 60

\* The dictionary activity_map in its declared order.
activity_map ==
    << <<"Swimming", {"swimming", "bathing", "wading", "floating"}>>,
       <<"Surfing", {"surfing", "surf", "bodyboarding", "boogie boarding"}>>,
       <<"Diving", {"diving", "snorkeling", "free diving", "scuba"}>>,
       <<"Fishing", {"fishing", "spearfishing", "angling"}>>,
       <<"Boating", {"boating", "sailing", "kayaking", "canoeing"}>>,
       <<"Other", {"walking", "standing", "fell overboard", "unknown"}>> >>

all_keywords == UNION {activity_map[k][2] : k \in 1..Len(activity_map)}

\* The keywords extractOne is taken to rank best for a query.
ActivityBest == {"swimming", "surf", "scuba", "angling", "kayaking", "walking"}

\* The text normalize_activity works on: str(activity).lower().strip().
ActivityText(x) == Strip(Lower(StrOf(x)))

\* The categories one of whose keywords occurs in the text.
KeywordHits(a) ==
    {k \in 1..Len(activity_map) : \E kw \in activity_map[k][2] : Contains(a, kw)}

\* The first category, in declared order, among the positions ks.
FirstCategory(ks) ==
    activity_map[CHOOSE k \in ks : \A j \in ks : k <= j][1]

\* The categories whose keyword list holds the keyword kw.
Owners(kw) == {k \in 1..Len(activity_map) : kw \in activity_map[k][2]}

ActivityAsksFuzzy(x) == ~IsNa(x) /\ KeywordHits(ActivityText(x)) = {}

normalize_activity_mutant(x, o) ==
    LET a == ActivityText(x)
        hits == KeywordHits(a)
    IN  IF IsNa(x) THEN Str("Unknown")
        ELSE IF hits # {} THEN Str(FirstCategory(hits))
        ELSE IF HasMatch(o, ActivityCutoff) /\ Owners(o.cand) # {}
             THEN Str(FirstCategory(Owners(o.cand)))
        ELSE Str("Unknown")

\* normalize_activity(activity), given extractOne's answer o.
normalize_activity(x, o) ==
    LET a == ActivityText(x)
        hits == KeywordHits(a)
    IN  IF IsNa(x) THEN Str("Unknown")
        ELSE IF hits # {} THEN Str(FirstCategory(hits))
        ELSE IF HasMatch(o, ActivityCutoff) /\ Owners(o.cand) # {}
             THEN Str(FirstCategory(Owners(o.cand)))
        ELSE Str("Other")

clean_activity(d, o) ==
    WithColumn(d, "Activity",
        [i \in 1..NumRows(d) |-> normalize_activity(d.rows[i]["Activity"], o[i])])

ActivityCellAnswers(x) ==
    IF ActivityAsksFuzzy(x)
    THEN Answers(ActivityText(x), ActivityBest, {ActivityCutoff})
    ELSE {NoCall}

ActivityAnswers(d) ==
    IF "Activity" \notin d.cols THEN {NoCalls(d)}
    ELSE RowWise([i \in 1..NumRows(d) |-> ActivityCellAnswers(d.rows[i]["Activity"])])

StepCleanActivity ==
    \E o \in ActivityAnswers(df) :
        Apply("clean_activity", Missing(df, {"Activity"}), clean_activity(df, o),
              o, ActivityCutoff)

CallCleanActivity == Direct /\ StepCleanActivity

ActivityInputs ==
    {Null} \cup Padded({"", "went swimming", "Surfing", "swiming", "walked along shore"})
           \cup {Str(s) : s \in {"Scuba Diving", "Spearfishing", "Kayaking",
                                 "Fell overboard", "unknown", "Unknown", "Bathing in surf",
                                 "Free diving / fishing", "Standing", "Other",
                                 "Body boarding", "Sea disaster"}}

InitActivity ==
    \E d \in Tables({"Activity"}, RowsOver("Activity", ActivityInputs)) : InitCall(d)

NextActivity == CallCleanActivity

SpecActivity == InitActivity /\ [][NextActivity]_vars

-----------------------------------------------------------------------------
(* pd.to_numeric(..., errors='coerce') *)

NaN == [kind |-> "nan", n |-> 0]

AllDigits(s) == \A i \in 1..Len(s) : IsDigit(CharAt(s, i))

RECURSIVE DigitsVal(_)
\* The number a run of digits writes; 0 for the empty run.
DigitsVal(s) ==
    IF s = "" THEN 0
    ELSE 10 * DigitsVal(SubSeq(s, 1, Len(s) - 1)) + (IndexOf(CharAt(s, Len(s)), Digits) - 1)

\* A plain decimal text: an optional sign, digits, an optional point and
\* digits.  The result is an integer ("int"), a number with a fractional
\* part ("frac", n its integer part) or NaN for a text that is no number.
ParseNumber(s) ==
    LET t == Strip(s)
        signed == t # "" /\ CharAt(t, 1) \in {"-", "+"}
        body == IF signed THEN SubSeq(t, 2, Len(t)) ELSE t
        dot == IndexOf(".", body)
        ip == IF dot = 0 THEN body ELSE SubSeq(body, 1, dot - 1)
        fp == IF dot = 0 THEN "" ELSE SubSeq(body, dot + 1, Len(body))
        mag == DigitsVal(ip)
        val == IF signed /\ CharAt(t, 1) = "-" THEN 0 - mag ELSE mag
    IN  IF ~(AllDigits(ip) /\ AllDigits(fp) /\ Len(ip) + Len(fp) > 0) THEN NaN
        ELSE IF \E i \in 1..Len(fp) : CharAt(fp, i) # "0"
             THEN [kind |-> "frac", n |-> val]
        ELSE [kind |-> "int", n |-> val]

to_numeric(x) ==
    CASE x.kind = "int" -> [kind |-> "int", n |-> x.n]
      [] x.kind = "str" -> ParseNumber(x.s)
      [] OTHER -> NaN

\* .astype('Int64') of one value: NaN becomes <NA>; a number with a
\* fractional part cannot be cast and the call raises TypeError.
AsInt64(v) == IF v.kind = "int" THEN Num(v.n) ELSE Null

CastRaises(vals) ==
    IF \E i \in DOMAIN vals : vals[i].kind = "frac" THEN "TypeError" ELSE "none"

-----------------------------------------------------------------------------
(* clean_age *)

AgeValues(d) == [i \in 1..NumRows(d) |-> to_numeric(d.rows[i]["Age"])]

clean_age(d) ==
    WithColumn(d, "Age", [i \in 1..NumRows(d) |-> AsInt64(AgeValues(d)[i])])

clean_age_raises(d) ==
    IF "Age" \notin d.cols THEN "KeyError" ELSE CastRaises(AgeValues(d))

StepCleanAge ==
    Apply("clean_age", clean_age_raises(df), clean_age(df), NoCalls(df), cutoff)

CallCleanAge == Direct /\ StepCleanAge

\* The largest age written in the raw numeric texts.
MaxAge == 12

AgeInputs ==
    {Null, Num(30), Num(0)}
    \cup {Str(sign \o NatStr(n) \o frac) :
            sign \in {"", "-"}, n \in 0..MaxAge, frac \in {"", ".0", ".5"}}
    \cup {Str(s) : s \in {"", "Teen", "20s", "18 months", " 28 ", "?"}}

InitAge == \E d \in Tables({"Age"}, RowsOver("Age", AgeInputs)) : InitCall(d)

NextAge == CallCleanAge

SpecAge == InitAge /\ [][NextAge]_vars

-----------------------------------------------------------------------------
(* clean_date *)

\* The alternatives of the month pattern, in the order the pattern lists them.
month_pattern ==
    <<"January", "February", "March", "April", "May", "June", "July", "August",
      "September", "October", "November", "December", "Jan", "Feb", "Mar", "Apr",
      "May", "Jun", "Jul", "Aug", "Sep", "Oct", "Nov", "Dec">>

month_map ==
    [k \in {"Jan", "Feb", "Mar", "Apr", "Jun", "Jul", "Aug", "Sep", "Oct", "Nov", "Dec"} |->
        CASE k = "Jan" -> "January"
          [] k = "Feb" -> "February"
          [] k = "Mar" -> "March"
          [] k = "Apr" -> "April"
          [] k = "Jun" -> "June"
          [] k = "Jul" -> "July"
          [] k = "Aug" -> "August"
          [] k = "Sep" -> "September"
          [] k = "Oct" -> "October"
          [] k = "Nov" -> "November"
          [] OTHER -> "December"]

StartsAt(s, i, sub) ==
    i + Len(sub) - 1 <= Len(s) /\ SubSeq(s, i, i + Len(sub) - 1) = sub

\* .str.extract of the month pattern: the leftmost match, and there the first
\* alternative that matches; NaN when there is none or the cell is no text.
ExtractMonth(x) ==
    LET at(i) == {k \in 1..Len(month_pattern) : StartsAt(x.s, i, month_pattern[k])}
        starts == {i \in 1..Len(x.s) : at(i) # {}}
    IN  IF x.kind # "str" \/ starts = {} THEN Null
        ELSE LET i == CHOOSE i \in starts : \A j \in starts : i <= j
                 k == CHOOSE k \in at(i) : \A j \in at(i) : k <= j
             IN  Str(month_pattern[k])

\* .replace(month_map)
MonthCell(x) ==
    LET m == ExtractMonth(x)
    IN  IF m.kind = "str" /\ m.s \in DOMAIN month_map THEN Str(month_map[m.s]) ELSE m

\* The positions where four digits in a row start.
FourDigitStarts(s) ==
    {i \in 1..Len(s) : i + 3 <= Len(s) /\ AllDigits(SubSeq(s, i, i + 3))}

\* pd.to_numeric of .str.extract(r'(\d{4})'): the first run of four digits.
DateYear(x) ==
    IF x.kind # "str" \/ FourDigitStarts(x.s) = {} THEN NaN
    ELSE LET i == CHOOSE i \in FourDigitStarts(x.s) : \A j \in FourDigitStarts(x.s) : i <= j
         IN  [kind |-> "int", n |-> DigitsVal(SubSeq(x.s, i, i + 3))]

ZeroIsInvalidMutant(v) == v

\* .loc[Fixed Year == 0, 'Fixed Year'] = np.nan
ZeroIsInvalid(v) == IF v.kind = "int" /\ v.n = 0 THEN NaN ELSE v

\* Fixed Year of one row before the cast: the numeric Year, zero made NaN,
\* NaN filled with the year of the Date text.
FixedYear(year, date) ==
    LET v == ZeroIsInvalid(to_numeric(year))
    IN  IF v.kind = "nan" THEN DateYear(date) ELSE v

FixedYears(d) ==
    [i \in 1..NumRows(d) |-> FixedYear(d.rows[i]["Year"], d.rows[i]["Date"])]

clean_date(d) ==
    LET months == [i \in 1..NumRows(d) |-> MonthCell(d.rows[i]["Date"])]
        years == [i \in 1..NumRows(d) |-> AsInt64(FixedYears(d)[i])]
        fixed == WithColumn(WithColumn(d, "Month", months), "Fixed Year", years)
        kept == DropColumns(fixed, {"Year", "Date"})
    IN  \* rename(columns={'Fixed Year': 'Year'})
        DropColumns(WithColumn(kept, "Year", Column(kept, "Fixed Year")), {"Fixed Year"})

clean_date_raises(d) ==
    IF ~({"Date", "Year"} \subseteq d.cols) THEN "KeyError" ELSE CastRaises(FixedYears(d))

StepCleanDate ==
    Apply("clean_date", clean_date_raises(df), clean_date(df), NoCalls(df), cutoff)

CallCleanDate == Direct /\ StepCleanDate

YearInputs ==
    {Null, Num(0), Num(1984), Num(77), Num(2018), Num(12345), Num(-500)}
    \cup {Str(s) : s \in {"0", "1984", "0.0", "unknown", "", "1984.5", "2009.0", "77"}}

DateInputs ==
    {Null} \cup {Str(s) : s \in {"14-Jan-1984", "Reported 2009", "Ca. 725 B.C.",
                                 "No date", "0000", "Sept-1907", "May 18066",
                                 "Reported 06-Jul-0500", "", "1 March or 2 Mar 95"}}

DateRows ==
    {[k \in {"Date", "Year"} |-> IF k = "Date" THEN dt ELSE y] :
        dt \in DateInputs, y \in YearInputs}

InitDate == \E d \in Tables({"Date", "Year"}, DateRows) : InitCall(d)

NextDate == CallCleanDate

SpecDate == InitDate /\ [][NextDate]_vars

-----------------------------------------------------------------------------
(* clean_injury *)

\* categorize_body_part(injury)
categorize_body_part(x) ==
    LET injury == Lower(StrOf(x))
        has(w) == Contains(injury, w)
    IN  IF has("leg") \/ has("thigh") \/ has("calf") \/ has("foot") THEN "Leg / Foot"
        ELSE IF has("arm") \/ has("bicep") \/ has("wrist") THEN "Arm"
        ELSE IF has("hand") \/ has("finger") THEN "Hand / Fingers"
        ELSE IF has("shoulder") THEN "Shoulder"
        ELSE IF has("abdomen") \/ has("stomach") \/ has("torso") \/ has("body")
             THEN "Body / Abdomen"
        ELSE IF has("head") \/ has("face") \/ has("neck") THEN "Head / Neck"
        ELSE "Unspecified / Multiple"

clean_injury(d) ==
    DropColumns(
        WithColumn(d, "Body Part",
            [i \in 1..NumRows(d) |-> Str(categorize_body_part(d.rows[i]["Injury"]))]),
        {"Injury"})

\* shark_attack_df['Injury'] is read before the column is dropped.
StepCleanInjury ==
    Apply("clean_injury", Missing(df, {"Injury"}), clean_injury(df), NoCalls(df), cutoff)

CallCleanInjury == Direct /\ StepCleanInjury

InjuryWords ==
    {"Leg", "forearm", "Hand", "shoulder", "torso", "Head", "bitten", "calf"}

InjuryInputs ==
    {Null, Str(""), Str("FATAL"), Str("No injury")}
    \cup {Str(w) : w \in InjuryWords}
    \cup {Str(a \o " & " \o b) : a \in InjuryWords, b \in InjuryWords}

InitInjury ==
    \E d \in Tables({"Injury"}, RowsOver("Injury", InjuryInputs))
             \cup Tables({"Body Part"},
                         RowsOver("Body Part", {Str("Arm"), Str("Unspecified / Multiple")})) :
        InitCall(d)

NextInjury == CallCleanInjury

SpecInjury == InitInjury /\ [][NextInjury]_vars

-----------------------------------------------------------------------------
(* drop_useless_columns *)

useless_columns ==
    {"Case Number", "Name", "Source", "pdf", "href formula", "href", "Case Number.1",
     "original order", "Unnamed: 21", "Unnamed: 22", "Location", "Time"}

drop_useless_columns(d) == DropColumns(d, useless_columns)

StepDropUselessColumns ==
    Apply("drop_useless_columns", "none", drop_useless_columns(df), NoCalls(df), cutoff)

-----------------------------------------------------------------------------
(* clean_data *)

stage_order_mutant ==
    <<"drop_useless_columns", "clean_date", "clean_sex", "clean_age", "clean_type",
      "clean_state", "clean_country", "clean_activity", "clean_species",
      "clean_injury", "clean_fatal">>

\* The calls of clean_data, in the order it makes them.
stage_order ==
    <<"drop_useless_columns", "clean_date", "clean_sex", "clean_age", "clean_type",
      "clean_country", "clean_state", "clean_activity", "clean_species",
      "clean_injury", "clean_fatal">>

\* The call of clean_data named f.
Stage(f) ==
    \/ f = "drop_useless_columns" /\ StepDropUselessColumns
    \/ f = "clean_date" /\ StepCleanDate
    \/ f = "clean_sex" /\ StepCleanSex
    \/ f = "clean_age" /\ StepCleanAge
    \/ f = "clean_type" /\ StepCleanType
    \/ f = "clean_country" /\ StepCleanCountry(PipelineCutoff)
    \/ f = "clean_state" /\ StepCleanState(PipelineCutoff)
    \/ f = "clean_activity" /\ StepCleanActivity
    \/ f = "clean_species" /\ StepCleanSpecies
    \/ f = "clean_injury" /\ StepCleanInjury
    \/ f = "clean_fatal" /\ StepCleanFatal

\* clean_data runs its next call on the table the previous call returned.
CleanDataStep ==
    /\ pc < Len(stage_order)
    /\ pc' = pc + 1
    /\ Stage(stage_order[pc + 1])

PipelineColumns ==
    {"Case Number", "Date", "Year", "Sex", "Age", "Type", "Country", "State",
     "Activity", "Species ", "Injury", "Fatal Y/N", "Time", "Investigator"}

\* Two raw records; Country and State are drawn apart.
PipelineProfiles ==
    { [k \in PipelineColumns |->
         CASE k = "Case Number" -> Str("1984.01.14")
           [] k = "Date" -> Str("14-Jan-1984")
           [] k = "Year" -> Num(1984)
           [] k = "Sex" -> Str(" m")
           [] k = "Age" -> Str("23")
           [] k = "Type" -> Str("Boat")
           [] k = "Activity" -> Str("went swimming")
           [] k = "Species " -> Str("White shark, 2m")
           [] k = "Injury" -> Str("Leg bitten")
           [] k = "Fatal Y/N" -> Str(" y ")
           [] k = "Time" -> Str("14h00")
           [] k = "Investigator" -> Str(" J. Green ")
           [] OTHER -> Null],
      [k \in PipelineColumns |->
         CASE k = "Case Number" -> Str("ND.0001")
           [] k = "Date" -> Str("Reported 2009")
           [] k = "Year" -> Num(0)
           [] k = "Sex" -> Null
           [] k = "Age" -> Str("Teen")
           [] k = "Type" -> Null
           [] k = "Activity" -> Null
           [] k = "Species " -> Str("wobbegong")
           [] k = "Injury" -> Null
           [] k = "Fatal Y/N" -> Str("UNKNOWN")
           [] k = "Investigator" -> Str("")
           [] OTHER -> Null] }

PipelineCountries == {Null, Str("USA"), Str("Xyzland"), Str("France"), Str(" Australia")}

PipelineStates == {Null, Str(" Florda "), Str("Tasmania"), Str("  ")}

PipelineRows ==
    {[p EXCEPT !["Country"] = c, !["State"] = s] :
        p \in PipelineProfiles, c \in PipelineCountries, s \in PipelineStates}

InitPipeline == \E d \in Tables(PipelineColumns, PipelineRows) : InitCall(d)

NextPipeline == CleanDataStep

SpecPipeline == InitPipeline /\ [][NextPipeline]_vars

\* clean_data on tables of several distinct records that carry, besides the
\* columns the stages read, an untouched column (Investigator) and a column
\* named like one the date stage writes (Month).
FrameMaxRows == 2

FrameColumns == PipelineColumns \cup {"Month"}

FrameRecords ==
    {[k \in FrameColumns |->
        IF k = "Month" THEN m
        ELSE IF k = "Country" THEN Str("USA")
        ELSE IF k = "State" THEN Str(" Florda ")
        ELSE p[k]] :
        p \in PipelineProfiles, m \in {Null, Str("1")}}

FrameTables ==
    {[cols |-> FrameColumns, rows |-> r] :
        r \in UNION {[1..n -> FrameRecords] : n \in 1..FrameMaxRows}}

InitFrame == \E d \in FrameTables : InitCall(d)

NextFrame == CleanDataStep

SpecFrame == InitFrame /\ [][NextFrame]_vars

-----------------------------------------------------------------------------
(* Properties *)

\* A call of f returned.
Returned(f) == last = f /\ err = "none"

Rows == 1..NumRows(df)

FatalValues == {Str("Yes"), Str("No"), Str("Unknown")}

\* C1: after clean_fatal every cell of 'Fatal Y/N' is exactly "Yes", "No" or
\* "Unknown", whatever the raw cell was (missing, empty, any case, padded).
FatalClosedSet ==
    Returned("clean_fatal") => \A i \in Rows : df.rows[i]["Fatal Y/N"] \in FatalValues

\* C1: a padded raw cell in mixed case has been resolved to "No".
FatalClosedSetWitness ==
    /\ Returned("clean_fatal")
    /\ \E i \in Rows :
        /\ arg.rows[i]["Fatal Y/N"] = Str("\t Nq ")
        /\ df.rows[i]["Fatal Y/N"] = Str("No")

\* C2: clean_sex, clean_type and clean_fatal are idempotent: a call on the
\* table the same function has just returned returns that table again.
CategoricalIdempotent ==
    [][(/\ last \in {"clean_sex", "clean_type", "clean_fatal"}
        /\ err = "none"
        /\ last' = last
        /\ err' = "none") => df' = df]_vars

\* The text of a raw Species cell reaches the name-mapping step according to
\* the filter as C3 states it: it has no "shark", no quote and no "m".
PassesStatedFilter(x) ==
    LET t == SpeciesText(x)
        lt == Lower(t)
    IN  /\ ~IsNa(x)
        /\ t # ""
        /\ ~HasInvalidTerm(lt)
        /\ ~Contains(lt, "shark")
        /\ ~Contains(t, "'")
        /\ ~Contains(lt, "m")

\* C3: the size filter of normalize_species answers "Unknown" only for a text
\* without "shark" that has a quote or an "m"; a text without "shark", quote
\* and "m" goes on to the name mapping ("great white" -> "Great White Shark").
SizeFilterNeedsQuoteOrM ==
    Returned("clean_species") =>
        \A i \in Rows :
            LET x == arg.rows[i][SpeciesCol(arg)]
                lt == Lower(SpeciesText(x))
            IN  (PassesStatedFilter(x) /\ MappingHits(lt) # {})
                    => df.rows[i]["Species"] = Str(FirstMapping(lt))

\* The raw Country cell is passed through by C4's policy: it is missing or
\* empty, or it is no alias and extractOne found nothing at the cutoff.
CountryPassedThrough(x, o) ==
    \/ IsNa(x)
    \/ x = Str("")
    \/ /\ x.kind = "str"
       /\ Strip(x.s) \notin DOMAIN replacements
       /\ o.called
       /\ ~HasMatch(o, cutoff)

\* C4 as stated: a Country that is passed through is the raw value itself,
\* leading and trailing whitespace included.
CountryPassthroughUnchanged ==
    Returned("clean_country") =>
        \A i \in Rows :
            CountryPassedThrough(arg.rows[i]["Country"], fuzzy[i])
                => df.rows[i]["Country"] = arg.rows[i]["Country"]

\* C4 amended: a Country that is passed through is the raw value without its
\* leading and trailing whitespace; a missing value stays missing.
CountryPassthroughStripped ==
    Returned("clean_country") =>
        \A i \in Rows :
            LET x == arg.rows[i]["Country"]
            IN  CountryPassedThrough(x, fuzzy[i])
                    => df.rows[i]["Country"] = IF IsNa(x) THEN x ELSE Str(Strip(x.s))

\* C4: a padded Country with no candidate at the cutoff came back stripped.
CountryPassthroughWitness ==
    /\ Returned("clean_country")
    /\ \E i \in Rows :
        /\ arg.rows[i]["Country"] = Str(" Xyzland ")
        /\ fuzzy[i].called
        /\ ~HasMatch(fuzzy[i], cutoff)
        /\ df.rows[i]["Country"] = Str("Xyzland")

\* clean_data calls clean_country sixth and clean_state seventh, and the
\* State of a row whose raw Country is "USA" is matched against the
\* subdivisions of the United States.
StateAfterCountry ==
    /\ last = "clean_country" => pc = 6
    /\ last = "clean_state" => pc = 7
    /\ Returned("clean_state") =>
        \A i \in Rows :
            LET st == raw.rows[i]["State"]
            IN  (raw.rows[i]["Country"] = Str("USA") /\ ~IsNa(st) /\ Strip(st.s) # "")
                    => /\ fuzzy[i].called
                       /\ fuzzy[i].cand \in state_mappings["United States"]
                       /\ df.rows[i]["State"] =
                            IF HasMatch(fuzzy[i], PipelineCutoff)
                            THEN Str(fuzzy[i].cand)
                            ELSE Str(Strip(st.s))

\* The State of a row whose State or normalized Country is missing is the
\* raw State.
StateOfMissingUnchanged ==
    Returned("clean_state") =>
        \A i \in Rows :
            (IsNa(raw.rows[i]["State"]) \/ IsNa(arg.rows[i]["Country"]))
                => df.rows[i]["State"] = raw.rows[i]["State"]

\* The row's State and normalized Country are present and the Country has no
\* entry in state_mappings.
NoVocabulary(i) ==
    /\ ~IsNa(raw.rows[i]["State"])
    /\ ~IsNa(arg.rows[i]["Country"])
    /\ country_states(arg.rows[i]["Country"]) = {}

\* C5 as stated: the Country stage runs before the State stage, which takes
\* its vocabulary from the normalized Country; a row whose normalized Country
\* has no vocabulary, or whose State or Country is missing, keeps its State
\* unchanged.
StateScopedUnchanged ==
    /\ StateAfterCountry
    /\ StateOfMissingUnchanged
    /\ Returned("clean_state") =>
        \A i \in Rows :
            NoVocabulary(i) => df.rows[i]["State"] = raw.rows[i]["State"]

\* C5 amended: as stated, but a row whose normalized Country has no
\* vocabulary gets its State back without leading and trailing whitespace.
StateScopedStripped ==
    /\ StateAfterCountry
    /\ StateOfMissingUnchanged
    /\ Returned("clean_state") =>
        \A i \in Rows :
            NoVocabulary(i) => df.rows[i]["State"] = Str(Strip(raw.rows[i]["State"].s))

\* C5: the State of a raw "USA" row was matched to a subdivision of the
\* United States, and a padded State of a country without vocabulary came
\* back stripped.
StateScopedWitness ==
    /\ Returned("clean_state")
    /\ \E i \in Rows :
        \/ /\ raw.rows[i]["Country"] = Str("USA")
           /\ raw.rows[i]["State"] = Str(" Florda ")
           /\ df.rows[i]["State"] = Str("Florida")
        \/ /\ raw.rows[i]["Country"] = Str("France")
           /\ raw.rows[i]["State"] = Str(" Florda ")
           /\ df.rows[i]["State"] = Str("Florda")

ActivityValues ==
    {Str(s) : s \in {"Swimming", "Surfing", "Diving", "Fishing", "Boating", "Other",
                     "Unknown"}}

\* C6: clean_activity answers within the closed set; "Unknown" exactly for a
\* missing input; "Other" for a present input with no keyword in it and no
\* fuzzy match at cutoff 60.
ActivityClosedAsymmetric ==
    Returned("clean_activity") =>
        \A i \in Rows :
            LET x == arg.rows[i]["Activity"]
                y == df.rows[i]["Activity"]
            IN  /\ y \in ActivityValues
                /\ y = Str("Unknown") <=> IsNa(x)
                /\ (/\ ~IsNa(x)
                    /\ KeywordHits(ActivityText(x)) = {}
                    /\ ~HasMatch(fuzzy[i], ActivityCutoff)) => y = Str("Other")

\* C6: a present text with no keyword and a best score below 60 became "Other".
ActivityClosedWitness ==
    /\ Returned("clean_activity")
    /\ \E i \in Rows :
        /\ arg.rows[i]["Activity"] = Str("walked along shore")
        /\ fuzzy[i].called
        /\ fuzzy[i].score < ActivityCutoff
        /\ df.rows[i]["Activity"] = Str("Other")

\* The primary year of C7: the numeric value of the raw Year cell.
PrimaryYear(i) == to_numeric(arg.rows[i]["Year"])

\* A primary year that is missing, non-numeric or zero is invalid.
PrimaryInvalid(i) ==
    PrimaryYear(i).kind = "nan" \/ (PrimaryYear(i).kind = "int" /\ PrimaryYear(i).n = 0)

\* C7: clean_date derives Year without ever raising: an invalid primary year
\* (zero, missing, non-numeric) is replaced by the first four-digit run of the
\* Date text, a valid one is kept, and Year is null when both fail.
YearDerivedNeverRaises ==
    (last = "clean_date" /\ {"Date", "Year"} \subseteq arg.cols) =>
        /\ err = "none"
        /\ \A i \in Rows :
            df.rows[i]["Year"] =
                IF PrimaryInvalid(i)
                THEN AsInt64(DateYear(arg.rows[i]["Date"]))
                ELSE Num(PrimaryYear(i).n)

\* C8 as stated: after clean_date, Year is null or an integer in 1000..9999.
YearFourDigitRange ==
    Returned("clean_date") =>
        \A i \in Rows :
            LET y == df.rows[i]["Year"]
            IN  y = Null \/ (y.kind = "int" /\ y.n \in 1000..9999)

\* C8 amended: after clean_date, Year is null or an integer: the raw Year's
\* own non-zero value, of any size or sign, or else the value in 0..9999 of
\* the first four-digit run of the Date text.
YearIntegerOrNull ==
    Returned("clean_date") =>
        \A i \in Rows :
            LET y == df.rows[i]["Year"]
                dy == DateYear(arg.rows[i]["Date"])
            IN  \/ y = Null
                \/ /\ y.kind = "int"
                   /\ ~PrimaryInvalid(i)
                   /\ y.n = PrimaryYear(i).n
                   /\ y.n # 0
                \/ /\ y.kind = "int"
                   /\ PrimaryInvalid(i)
                   /\ dy.kind = "int"
                   /\ y.n = dy.n
                   /\ y.n \in 0..9999

\* C8: a raw Year of 77 was kept, and a Date of "0000" gave the Year 0.
YearIntegerWitness ==
    /\ Returned("clean_date")
    /\ \E i \in Rows :
        \/ arg.rows[i]["Year"] = Num(77) /\ df.rows[i]["Year"] = Num(77)
        \/ /\ arg.rows[i]["Year"] = Null
           /\ arg.rows[i]["Date"] = Str("0000")
           /\ df.rows[i]["Year"] = Num(0)

\* C9: clean_age never raises and leaves every Age null or a non-negative
\* integer, for numeric, negative, non-numeric, empty and missing raw cells.
AgeNonNegativeNeverRaises ==
    (last = "clean_age" /\ "Age" \in arg.cols) =>
        /\ err = "none"
        /\ \A i \in Rows :
            LET y == df.rows[i]["Age"]
            IN  y = Null \/ (y.kind = "int" /\ y.n >= 0)

\* C10: clean_injury on a table without the column 'Injury' returns a table
\* and raises nothing.
InjuryMissingTolerated ==
    (last = "clean_injury" /\ "Injury" \notin arg.cols) => err = "none"

\* The columns some stage of clean_data reads and replaces or removes.
ConsumedColumns ==
    {"Date", "Year", "Sex", "Age", "Type", "Country", "State", "Activity",
     "Species", "Species ", "Injury", "Fatal Y/N"}

\* The columns a stage writes without reading them.
WrittenColumns == {"Month", "Fixed Year", "Body Part"}

\* The table clean_data holds has the rows of the caller's table, in their
\* order, and every column of the caller's table outside owned with its cells.
FramePost(owned) ==
    err = "none" =>
        /\ NumRows(df) = NumRows(raw)
        /\ \A c \in raw.cols \ owned :
            /\ c \in df.cols
            /\ Column(df, c) = Column(raw, c)

\* C11 as stated: no call of clean_data changes the caller's table or the
\* table it was handed, and after every prefix of the calls the table has
\* the caller's rows in order and every column outside the pruned and
\* consumed columns with unchanged cells.
StagesPurePassOutsideConsumed ==
    [][/\ raw' = raw
       /\ arg' = df
       /\ FramePost(useless_columns \cup ConsumedColumns)']_vars

\* C11: no call of clean_data changes the caller's table or the table it was
\* handed, and after every prefix of the calls the table has the caller's
\* rows in order and, with unchanged cells, every column outside the pruned
\* columns, the consumed columns and the columns the stages write (Month,
\* Fixed Year, Body Part).
StagesPurePassOutsideOwned ==
    [][/\ raw' = raw
       /\ arg' = df
       /\ FramePost(useless_columns \cup ConsumedColumns \cup WrittenColumns)']_vars

\* C11: clean_data ran all its calls on a table of two different records:
\* Investigator came through, the raw Month of a record did not.
StagesPureWitness ==
    /\ pc = Len(stage_order)
    /\ err = "none"
    /\ NumRows(raw) = 2
    /\ raw.rows[1] # raw.rows[2]
    /\ raw.rows[1]["Investigator"] # raw.rows[2]["Investigator"]
    /\ Column(df, "Investigator") = Column(raw, "Investigator")
    /\ raw.rows[1]["Month"] = Str("1")
    /\ df.rows[1]["Month"] # Str("1")
    /\ "Time" \notin df.cols

\* C12: every name of shark_species is a fixed point of normalize_species:
\* a Species cell that holds a canonical name holds the same name after
\* clean_species ("Sand Tiger Shark" stays "Sand Tiger Shark").
TaxonomyFixedPoints ==
    Returned("clean_species") =>
        \A i \in Rows :
            LET x == arg.rows[i][SpeciesCol(arg)]
            IN  (~IsNa(x) /\ x.s \in shark_species) => df.rows[i]["Species"] = x

====
